---- MODULE Spec2Model ----
(***************************************************************************)
(* insta485generator: the templated static site generator of              *)
(* src/insta485generator/__main__.py, modelled as the state machine of    *)
(* main().                                                                 *)
(*                                                                         *)
(* Strings are sequences of tokens: "/" is the path separator, every other *)
(* token is a run of characters without a separator.  A path below the     *)
(* output root is a sequence of components, a component is a non-empty     *)
(* sequence of tokens.  A directory tree is a function from paths to       *)
(* entries; the empty path <<>> is the root of the tree, and a tree whose  *)
(* domain is empty does not exist on disk.                                 *)
(***************************************************************************)
EXTENDS Integers, Sequences, FiniteSets, TLC

VARIABLES
    pc,         \* the statement of main() that runs next, or "done"/"failed"
    fs0,        \* the tree at the output path when main() starts
    fs,         \* the tree at the output path now
    configFile, \* input_dir/config.json as line 40 finds it ("unread" before)
    static,     \* input_dir/static as line 62 finds it (no tree: absent)
    verbose,    \* the -v flag
    env,        \* the jinja2 environment, "none" before it is built
    data,       \* the parsed config, <<>> before json.load
    handles,    \* the file handles that are open
    idx,        \* the number of route records the for loop has finished
    rendered,   \* per route written: its locals url, template name, output_file
    stdout,     \* the lines written to standard output
    stderr,     \* the lines written to the error stream
    error,      \* the exception that ended the run, "none" if there is none
    exitCode,   \* the process exit status, -1 while main() runs
    applied     \* how many times the static copier has run

vars == <<pc, fs0, fs, configFile, static, verbose, env, data, handles, idx,
          rendered, stdout, stderr, error, exitCode, applied>>

(***************************************************************************)
(* Bounds                                                                  *)
(***************************************************************************)
MaxRoutes == 2     \* route records in config.json
MaxUrlLen == 3     \* tokens in a route's url
MaxCopies == 2     \* applications of the static copier in SpecCopy

(***************************************************************************)
(* Strings                                                                 *)
(***************************************************************************)
SLASH == "/"

SeqsUpTo(S, n) == UNION {[1..m -> S] : m \in 0..n}

\* the number of separators s starts with
LeadingSlashes(s) ==
    CHOOSE n \in 0..Len(s) :
        /\ \A i \in 1..n : s[i] = SLASH
        /\ n < Len(s) => s[n + 1] # SLASH

\* removes one leading separator only
StripOne(s) == IF s # <<>> /\ Head(s) = SLASH THEN Tail(s) ELSE s

\* str.lstrip("/"): removes every leading separator
lstrip(s) == SubSeq(s, LeadingSlashes(s) + 1, Len(s))

RECURSIVE SplitAcc(_, _, _)
SplitAcc(s, cur, acc) ==
    IF s = <<>>
    THEN IF cur = <<>> THEN acc ELSE Append(acc, cur)
    ELSE IF Head(s) = SLASH
         THEN SplitAcc(Tail(s), <<>>, IF cur = <<>> THEN acc ELSE Append(acc, cur))
         ELSE SplitAcc(Tail(s), Append(cur, Head(s)), acc)

\* pathlib's parsing of a relative path: the components between separators,
\* empty components (repeated, leading or trailing separators) dropped
PathParts(s) == SplitAcc(s, <<>>, <<>>)

INDEX_HTML == <<"index.html">>

\* output_root / url / "index.html", relative to output_root
OutputFile(url) == Append(PathParts(url), INDEX_HTML)

(***************************************************************************)
(* Directory trees                                                         *)
(***************************************************************************)
NoTree == <<>>

Dir == [kind |-> "dir", origin |-> "dir", text |-> <<>>, readable |-> TRUE]

File(origin, text) ==
    [kind |-> "file", origin |-> origin, text |-> text, readable |-> TRUE]

Exists(f, p) == p \in DOMAIN f
IsDir(f, p) == p \in DOMAIN f /\ f[p].kind = "dir"
IsFile(f, p) == p \in DOMAIN f /\ f[p].kind = "file"

Prefix(p, n) == SubSeq(p, 1, n)
Prefixes(p) == {Prefix(p, n) : n \in 0..Len(p)}
Parent(p) == Prefix(p, Len(p) - 1)

\* f with the entries of g added or replaced
Overlay(f, g) ==
    [p \in DOMAIN f \cup DOMAIN g |-> IF p \in DOMAIN g THEN g[p] ELSE f[p]]

\* Path.mkdir(parents=True, exist_ok=True) succeeds unless the path or one
\* of its ancestors exists and is not a directory
MkdirOk(f, p) == \A q \in Prefixes(p) : Exists(f, q) => IsDir(f, q)

Mkdir(f, p) == Overlay(f, [q \in {q \in Prefixes(p) : ~Exists(f, q)} |-> Dir])

\* a write that replaces the content of a file that exists and creates none
WriteFile_ExistingOnly(f, p, entry) ==
    IF IsFile(f, p) THEN Overlay(f, [q \in {p} |-> entry]) ELSE f

\* open(p, "w") followed by write(text): creates or truncates p
WriteFile(f, p, entry) == Overlay(f, [q \in {p} |-> entry])

\* shutil.copytree(src, dst, dirs_exist_ok=True).  A directory of src is made
\* in dst unless dst holds a file there, which fails the directory and skips
\* everything below it; a file of src is copied by copy2, which writes into
\* dst/p/<name> when dst/p is a directory.  Errors are collected and raised
\* after the rest of the tree was copied.
CopyBlocked(src, dst, p) ==
    \E n \in 0..Len(p) : src[Prefix(p, n)].kind = "dir" /\ IsFile(dst, Prefix(p, n))

CopyTarget(dst, p) == IF IsDir(dst, p) THEN Append(p, p[Len(p)]) ELSE p

FileCopyOk(src, dst, p) == src[p].readable /\ ~IsDir(dst, CopyTarget(dst, p))

CopiedDirs(src, dst) ==
    {p \in DOMAIN src : src[p].kind = "dir" /\ ~CopyBlocked(src, dst, p)}

CopiedFiles(src, dst) ==
    {p \in DOMAIN src : /\ src[p].kind = "file"
                        /\ ~CopyBlocked(src, dst, p)
                        /\ FileCopyOk(src, dst, p)}

\* whether copytree returns without raising shutil.Error
copytree_ok(src, dst) == DOMAIN src = CopiedDirs(src, dst) \cup CopiedFiles(src, dst)

\* dst replaced by a copy of src: what copytree would do if it removed the
\* destination first
copytree_replace(src, dst) == [p \in DOMAIN src |-> src[p]]

\* the destination tree copytree leaves, whether or not it raises
copytree(src, dst) ==
    LET dirs == CopiedDirs(src, dst)
        files == CopiedFiles(src, dst)
        targets == {CopyTarget(dst, p) : p \in files}
        from(t) == CHOOSE p \in files : CopyTarget(dst, p) = t
    IN  Overlay(Overlay(dst, [p \in dirs |-> Dir]), [t \in targets |-> src[from(t)]])

(***************************************************************************)
(* Templates                                                               *)
(***************************************************************************)
\* input_dir/templates: file path -> template source.  A body is a sequence
\* of literal text and expressions.
Templates ==
    (<< <<"index.html">> >> :> <<"<h1>", "{{ v }}", "</h1>">>) @@
    (<< <<"page.txt">> >>   :> <<"<h1>", "{{ v }}", "</h1>">>) @@
    (<< <<"raw.html">> >>   :> <<"<h1>", "{{ v|safe }}", "</h1>">>) @@
    (<< <<"bad.html">> >>   :> <<"<h1>", "{{ v", "</h1>">>) @@
    (<< <<"boom.html">> >>  :> <<"<h1>", "{{ v.x.y }}", "</h1>">>)

\* the part of a file name after its last dot
Extension ==
    [t \in {"index.html", "raw.html", "bad.html", "boom.html", "nope.html"} |-> "html"]
    @@ ("page.txt" :> "txt")

\* jinja2.select_autoescape(['html', 'xml']): decides by the template's name
select_autoescape(name) ==
    name # <<>> /\ Extension[name[Len(name)]] \in {"html", "xml"}

\* markupsafe.escape
escape(text) == IF text = "<script>" THEN "&lt;script&gt;" ELSE text

\* env.get_template(name): the loader splits the name at separators
TemplateFound(name) == PathParts(name) \in DOMAIN Templates
TemplateSyntaxOk(name) == \A i \in DOMAIN Templates[PathParts(name)] :
                              Templates[PathParts(name)][i] # "{{ v"
\* attribute access on an undefined value raises UndefinedError
TemplateRenderOk(name) == \A i \in DOMAIN Templates[PathParts(name)] :
                              Templates[PathParts(name)][i] # "{{ v.x.y }}"

\* template.render(context)
Render(name, context) ==
    LET body == Templates[PathParts(name)]
    IN  [i \in DOMAIN body |->
            CASE body[i] = "{{ v }}" ->
                    IF select_autoescape(name) THEN escape(context.v) ELSE context.v
              [] body[i] = "{{ v|safe }}" -> context.v
              [] OTHER -> body[i]]

(***************************************************************************)
(* Output streams and the exception handlers of main()                     *)
(***************************************************************************)
PROGRAM_ERROR == "insta485generator error: "

\* click.echo(message): one entry per line of the message
Echo(stream, message) == stream \o message

\* click.echo(f"insta485generator error: {e}", err=True); str(e) may span lines
ErrorMessage(e) ==
    [i \in DOMAIN e |-> IF i = 1 THEN <<PROGRAM_ERROR, e[1]>> ELSE <<e[i]>>]

NoSuchFile == <<"[Errno 2] No such file or directory: 'config.json'">>
JSONDecodeError ==
    <<"'config.json'",
      "Expecting value (line 1 column 1): line 1 column 1 (char 0)">>
TemplateNotFound == <<"'template' not found.">>
TemplateSyntaxError == <<"'template'", "unexpected end of template", "  line 1">>
TemplateError == <<"Error rendering template 'template': 'str object' has no attribute 'x'">>
OSError == <<"[Errno 13] Permission denied: 'html'">>
FileExistsError == <<"[Errno 17] File exists: 'html/a'">>
IsADirectoryError == <<"[Errno 21] Is a directory: 'html/index.html'">>

\* an except clause of lines 106-120: report on the error stream, exit 1
Handler(name, e) ==
    /\ stderr' = Echo(stderr, ErrorMessage(e))
    /\ error' = name
    /\ exitCode' = 1
    /\ pc' = "failed"
    /\ handles' = {}
    /\ UNCHANGED stdout

(***************************************************************************)
(* Inputs                                                                  *)
(***************************************************************************)
A == <<"a">>
AA == <<"a", "a">>
CSS == <<"css">>

Tree(entries) == (<<>> :> Dir) @@ entries

\* what the output path may hold before the run: nothing, a directory with
\* an old file, or a plain file
OutputTrees ==
    { NoTree,
      Tree(<<A>> :> File("old", <<"old">>)),
      <<>> :> File("old", <<"old">>) }

\* input_dir/static: absent; a tree with nested entries; a tree with a file
\* that cannot be read
StaticTrees ==
    { NoTree,
      Tree((<<INDEX_HTML>> :> File("static", <<"asset">>)) @@
           (<<CSS>> :> Dir) @@
           (<<CSS, A>> :> File("static", <<"asset">>)) @@
           (<<AA>> :> File("static", <<"asset">>)) @@
           (<<A>> :> Dir) @@
           (<<A, INDEX_HTML>> :> Dir)),
      Tree((<<CSS>> :> File("static", <<"asset">>)) @@
           (<<A>> :> [File("static", <<"asset">>) EXCEPT !.readable = FALSE])) }

Urls == SeqsUpTo({SLASH, "a"}, MaxUrlLen)

Contexts == {[v |-> "Hi"], [v |-> "<script>"]}

\* route records: every url with the plain template, and one url with every
\* kind of template
RouteRecords ==
    [url : Urls, template : {<<"index.html">>}, context : {[v |-> "Hi"]}]
    \cup
    [url : {<<SLASH, "a">>},
     template : {<<SLASH, "index.html">>, <<SLASH, SLASH, "index.html">>,
                 <<"bad.html">>, <<"boom.html">>, <<"nope.html">>},
     context : {[v |-> "Hi"]}]
    \cup
    [url : {<<SLASH, "a">>},
     template : {<<"index.html">>, <<"page.txt">>, <<"raw.html">>},
     context : {[v |-> "<script>"]}]

Unread == [status |-> "unread", routes |-> <<>>]

ConfigFiles ==
    {[status |-> st, routes |-> <<>>] : st \in {"missing", "malformed"}}
    \cup {[status |-> "ok", routes |-> r] : r \in SeqsUpTo(RouteRecords, MaxRoutes)}

(***************************************************************************)
(* main()                                                                  *)
(***************************************************************************)
Init ==
    /\ pc = "validate"
    /\ fs0 \in OutputTrees
    /\ fs = fs0
    /\ configFile = Unread
    /\ static = NoTree
    /\ verbose \in BOOLEAN
    /\ env = "none"
    /\ data = <<>>
    /\ handles = {}
    /\ idx = 0
    /\ rendered = <<>>
    /\ stdout = <<>>
    /\ stderr = <<>>
    /\ error = "none"
    /\ exitCode = -1
    /\ applied = 0

inputs == <<fs0, verbose>>

\* sys.exit(1) outside any except clause: SystemExit passes the handlers
SysExit ==
    /\ error' = "SystemExit"
    /\ exitCode' = 1
    /\ pc' = "failed"
    /\ handles' = {}
    /\ UNCHANGED stderr

\* lines 20-29 with the existence check left out
Validate_NoCheck ==
    /\ pc = "validate"
    /\ pc' = "environment"
    /\ UNCHANGED <<inputs, configFile, static, fs, env, data, handles, idx,
                   rendered, stdout, stderr, error, exitCode, applied>>

\* lines 20-29: the output path must not exist
Validate ==
    /\ pc = "validate"
    /\ \/ /\ Exists(fs, <<>>)
          /\ stdout' = Echo(stdout, << <<"Path already exists">> >>)
          /\ SysExit
       \/ /\ ~Exists(fs, <<>>)
          /\ pc' = "environment"
          /\ UNCHANGED <<stdout, stderr, error, exitCode, handles>>
    /\ UNCHANGED <<inputs, configFile, static, fs, env, data, idx, rendered,
                   applied>>

\* lines 32-36: jinja2.Environment(...) reads nothing from disk
BuildEnvironment ==
    /\ pc = "environment"
    /\ env' = "select_autoescape"
    /\ pc' = "load_config"
    /\ UNCHANGED <<inputs, configFile, static, fs, data, handles, idx,
                   rendered, stdout, stderr, error, exitCode, applied>>

\* lines 39-52 with the output directory made before the file is opened
LoadConfig_MkdirFirst ==
    /\ pc = "load_config"
    /\ configFile' \in ConfigFiles
    /\ fs' = Mkdir(fs, <<>>)
    /\ \/ /\ configFile'.status = "missing"
          /\ Handler("FileNotFoundError", NoSuchFile)
          /\ UNCHANGED data
       \/ /\ configFile'.status = "malformed"
          /\ Handler("JSONDecodeError", JSONDecodeError)
          /\ UNCHANGED data
       \/ /\ configFile'.status = "ok"
          /\ data' = configFile'.routes
          /\ handles' = handles \cup {"config.json"}
          /\ pc' = "mkdir"
          /\ UNCHANGED <<stdout, stderr, error, exitCode>>
    /\ UNCHANGED <<inputs, static, env, idx, rendered, applied>>

\* lines 39-52 going on to the static copy without making the directory
LoadConfig_SkipMkdir ==
    /\ pc = "load_config"
    /\ configFile' \in ConfigFiles
    /\ configFile'.status = "ok"
    /\ data' = configFile'.routes
    /\ pc' = "copy_static"
    /\ UNCHANGED <<inputs, static, fs, env, handles, idx, rendered, stdout,
                   stderr, error, exitCode, applied>>

\* lines 39-52: config_path.open() and json.load(); the with block stays
\* open on success (it ends after line 73)
LoadConfig ==
    /\ pc = "load_config"
    /\ configFile' \in ConfigFiles
    /\ \/ /\ configFile'.status = "missing"
          /\ Handler("FileNotFoundError", NoSuchFile)
          /\ UNCHANGED data
       \/ /\ configFile'.status = "malformed"
          /\ Handler("JSONDecodeError", JSONDecodeError)
          /\ UNCHANGED data
       \/ /\ configFile'.status = "ok"
          /\ data' = configFile'.routes
          /\ handles' = handles \cup {"config.json"}
          /\ pc' = "mkdir"
          /\ UNCHANGED <<stdout, stderr, error, exitCode>>
    /\ UNCHANGED <<inputs, static, fs, env, idx, rendered, applied>>

\* lines 54-59: pathlib.Path.mkdir(output_root, parents=True, exist_ok=True);
\* the parent directory may refuse the write
MkdirOutput ==
    /\ pc = "mkdir"
    /\ \/ /\ MkdirOk(fs, <<>>)
          /\ fs' = Mkdir(fs, <<>>)
          /\ pc' = "copy_static"
          /\ UNCHANGED <<stdout, stderr, error, exitCode, handles>>
       \/ /\ Handler("OSError", IF MkdirOk(fs, <<>>) THEN OSError ELSE FileExistsError)
          /\ UNCHANGED fs
    /\ UNCHANGED <<inputs, configFile, static, env, data, idx, rendered,
                   applied>>

\* lines 61-68: the static copier, a no-op without input_dir/static
StaticCopier(src, dst) == IF DOMAIN src = {} THEN dst ELSE copytree(src, dst)

StaticCopierOk(src, dst) == DOMAIN src = {} \/ copytree_ok(src, dst)

\* lines 60-73, and the end of the with block of line 40
CopyStatic ==
    /\ pc = "copy_static"
    /\ static' \in StaticTrees
    /\ fs' = StaticCopier(static', fs)
    /\ applied' = applied + 1
    /\ \/ /\ StaticCopierOk(static', fs)
          /\ stdout' = IF verbose /\ DOMAIN static' # {}
                       THEN Echo(stdout, << <<"Copied static -> html">> >>)
                       ELSE stdout
          /\ handles' = handles \ {"config.json"}
          /\ pc' = "render"
          /\ UNCHANGED <<stderr, error, exitCode>>
       \/ /\ ~StaticCopierOk(static', fs)
          /\ stdout' = Echo(stdout, << <<"Error copying static files: ">> >>)
          /\ SysExit
    /\ UNCHANGED <<inputs, configFile, env, data, idx, rendered>>

\* the locals of one iteration of the loop of line 75
RouteUrl(key) == lstrip(key.url)
RouteTemplate(key) == lstrip(key.template)

\* what the iteration leaves in `rendered` and in the tree
Written(n, key) ==
    [key |-> n, url |-> RouteUrl(key), template |-> RouteTemplate(key),
     output_file |-> OutputFile(RouteUrl(key))]

RenderedFile(key) == File("render", Render(RouteTemplate(key), key.context))

\* lines 75-104 with a route whose template fails passed over
RenderRoute_SkipBroken ==
    /\ pc = "render"
    /\ idx < Len(data)
    /\ LET key == data[idx + 1]
           name == RouteTemplate(key)
           output_file == OutputFile(RouteUrl(key))
           good == /\ TemplateFound(name)
                   /\ TemplateSyntaxOk(name)
                   /\ TemplateRenderOk(name)
                   /\ MkdirOk(fs, Parent(output_file))
                   /\ ~IsDir(fs, output_file)
       IN  /\ fs' = IF good
                    THEN WriteFile(Mkdir(fs, Parent(output_file)), output_file,
                                   RenderedFile(key))
                    ELSE fs
           /\ rendered' = IF good THEN Append(rendered, Written(idx + 1, key))
                          ELSE rendered
    /\ idx' = idx + 1
    /\ UNCHANGED <<inputs, configFile, static, env, data, handles, stdout,
                   stderr, error, exitCode, pc, applied>>

\* lines 75-104: one iteration of the loop over the route records
RenderRoute ==
    /\ pc = "render"
    /\ idx < Len(data)
    /\ LET key == data[idx + 1]
           name == RouteTemplate(key)
           output_file == OutputFile(RouteUrl(key))
       IN  \/ /\ ~TemplateFound(name)
              /\ Handler("FileNotFoundError", TemplateNotFound)
              /\ UNCHANGED <<fs, idx, rendered>>
           \/ /\ TemplateFound(name)
              /\ ~TemplateSyntaxOk(name)
              /\ Handler("TemplateSyntaxError", TemplateSyntaxError)
              /\ UNCHANGED <<fs, idx, rendered>>
           \/ /\ TemplateFound(name)
              /\ TemplateSyntaxOk(name)
              /\ ~TemplateRenderOk(name)
              /\ Handler("TemplateError", TemplateError)
              /\ UNCHANGED <<fs, idx, rendered>>
           \/ /\ TemplateFound(name)
              /\ TemplateSyntaxOk(name)
              /\ TemplateRenderOk(name)
              /\ ~MkdirOk(fs, Parent(output_file))
              /\ Handler("FileExistsError", FileExistsError)
              /\ UNCHANGED <<fs, idx, rendered>>
           \/ /\ TemplateFound(name)
              /\ TemplateSyntaxOk(name)
              /\ TemplateRenderOk(name)
              /\ MkdirOk(fs, Parent(output_file))
              /\ IsDir(fs, output_file)
              /\ fs' = Mkdir(fs, Parent(output_file))
              /\ Handler("IsADirectoryError", IsADirectoryError)
              /\ UNCHANGED <<idx, rendered>>
           \/ /\ TemplateFound(name)
              /\ TemplateSyntaxOk(name)
              /\ TemplateRenderOk(name)
              /\ MkdirOk(fs, Parent(output_file))
              /\ ~IsDir(fs, output_file)
              /\ fs' = WriteFile(Mkdir(fs, Parent(output_file)), output_file,
                                 RenderedFile(key))
              /\ rendered' = Append(rendered, Written(idx + 1, key))
              /\ idx' = idx + 1
              /\ stdout' = IF verbose
                           THEN Echo(stdout, << <<"Rendered template -> output_file">> >>)
                           ELSE stdout
              /\ UNCHANGED <<stderr, error, exitCode, handles, pc>>
    /\ UNCHANGED <<inputs, configFile, static, env, data, applied>>

\* the loop is exhausted: main() returns and click exits with status 0
Return ==
    /\ pc = "render"
    /\ idx = Len(data)
    /\ pc' = "done"
    /\ exitCode' = 0
    /\ UNCHANGED <<inputs, configFile, static, fs, env, data, handles, idx,
                   rendered, stdout, stderr, error, applied>>

Next ==
    \/ Validate
    \/ BuildEnvironment
    \/ LoadConfig
    \/ MkdirOutput
    \/ CopyStatic
    \/ RenderRoute
    \/ Return

Spec == Init /\ [][Next]_vars

(***************************************************************************)
(* The static copier on its own: applied to a destination that may hold    *)
(* entries already, once and again                                         *)
(***************************************************************************)
CopyPaths == {<<A>>, <<CSS>>, <<A, A>>, <<A, CSS>>}

\* the trees with a root directory and entries at some of the paths
TreesOver(paths, file) ==
    {t \in UNION {[S \cup {<<>>} -> {Dir, file}] : S \in SUBSET paths} :
        \A p \in DOMAIN t : IF p = <<>> THEN t[p] = Dir ELSE IsDir(t, Parent(p))}

DestinationTrees == TreesOver(CopyPaths, File("old", <<"old">>))

SourceTrees == TreesOver(CopyPaths, File("static", <<"asset">>)) \cup StaticTrees

InitCopy ==
    /\ pc = "copier"
    /\ fs0 \in DestinationTrees
    /\ fs = fs0
    /\ static \in SourceTrees
    /\ configFile = [status |-> "missing", routes |-> <<>>]
    /\ verbose = FALSE
    /\ env = "none"
    /\ data = <<>>
    /\ handles = {}
    /\ idx = 0
    /\ rendered = <<>>
    /\ stdout = <<>>
    /\ stderr = <<>>
    /\ error = "none"
    /\ exitCode = -1
    /\ applied = 0

\* lines 61-68 run against the destination as it stands
ApplyStaticCopier ==
    /\ pc = "copier"
    /\ applied < MaxCopies
    /\ fs' = StaticCopier(static, fs)
    /\ error' = IF StaticCopierOk(static, fs) THEN "none" ELSE "shutil.Error"
    /\ applied' = applied + 1
    /\ UNCHANGED <<inputs, configFile, static, pc, env, data, handles, idx,
                   rendered, stdout, stderr, exitCode>>

NextCopy == ApplyStaticCopier

SpecCopy == InitCopy /\ [][NextCopy]_vars

(***************************************************************************)
(* Properties                                                              *)
(***************************************************************************)
OutputExisted == Exists(fs0, <<>>)

RenderedFiles(f) == {p \in DOMAIN f : f[p].kind = "file" /\ f[p].origin = "render"}

\* the destination of a route record as the specification words it
Destination(key) == Append(PathParts(key.url), INDEX_HTML)

Slashes(n) == [i \in 1..n |-> SLASH]

\* s is t with every leading separator removed
AllLeadingRemoved(s, t) ==
    /\ s = <<>> \/ Head(s) # SLASH
    /\ \E n \in 0..Len(t) : t = Slashes(n) \o s

\* the template of a route record cannot be resolved, parsed or rendered
Broken(key) ==
    LET name == lstrip(key.template)
    IN  ~(TemplateFound(name) /\ TemplateSyntaxOk(name) /\ TemplateRenderOk(name))

FirstBroken(k) ==
    /\ k \in 1..Len(data)
    /\ Broken(data[k])
    /\ \A j \in 1..(k - 1) : ~Broken(data[j])

\* the run ended in the iteration of the loop for route record k (a failed
\* static copy leaves through sys.exit, a failed mkdir before any copy)
FailedAtRoute(k) ==
    pc = "failed" /\ applied = 1 /\ error # "SystemExit" /\ idx = k - 1

\* C1: if the output path exists when main starts, the run exits with
\* status 1 and the tree under the output path stays as it was: no step
\* after the validation is ever taken.
C1_ExistingOutputAborts ==
    OutputExisted =>
        /\ fs = fs0
        /\ pc \in {"validate", "failed"}
        /\ pc = "failed" => exitCode = 1 /\ applied = 0 /\ rendered = <<>>

C1_Witness == OutputExisted /\ pc = "failed" /\ exitCode = 1 /\ IsFile(fs, <<A>>)

\* C2 as claimed: a successful run leaves exactly N rendered index.html
\* files for N route records, also when two urls share a destination.
C2_OneFilePerRoute ==
    pc = "done" => Cardinality(RenderedFiles(fs)) = Len(data)

\* C2 amended: a successful run leaves exactly one rendered index.html per
\* distinct destination, holding the rendering of the last route record
\* with that destination; that is N files when the N destinations are
\* pairwise distinct, and fewer when two route records share one.
C2_OneFilePerDestination ==
    pc = "done" =>
        LET N == Len(data)
            dests == {Destination(data[i]) : i \in 1..N}
            last(d) == CHOOSE i \in 1..N :
                          /\ Destination(data[i]) = d
                          /\ \A j \in (i + 1)..N : Destination(data[j]) # d
        IN  /\ exitCode = 0
            /\ RenderedFiles(fs) = dests
            /\ \A d \in dests : fs[d] = RenderedFile(data[last(d)])
            /\ (\A i, j \in 1..N : i # j => Destination(data[i]) # Destination(data[j]))
                  <=> Cardinality(RenderedFiles(fs)) = N

C2_Witness ==
    /\ pc = "done"
    /\ Len(data) = 2
    /\ data[1].url # data[2].url
    /\ Destination(data[1]) = Destination(data[2])
    /\ Cardinality(RenderedFiles(fs)) = 1

\* C3 as claimed: the url and the template name of every route written
\* have exactly one leading "/" removed, a second one being kept.
C3_OneSlashStripped ==
    \A i \in 1..Len(rendered) :
        /\ rendered[i].url = StripOne(data[rendered[i].key].url)
        /\ rendered[i].template = StripOne(data[rendered[i].key].template)

\* C3 amended: every leading "/" of the url is removed (a url beginning with
\* two or more slashes keeps none of them), the file is written to
\* <output_root>/<u>/index.html for the url u so stripped, and the template
\* name has every leading "/" removed before lookup.
C3_AllSlashesStripped ==
    \A i \in 1..Len(rendered) :
        LET r == rendered[i]
            key == data[r.key]
        IN  /\ AllLeadingRemoved(r.url, key.url)
            /\ AllLeadingRemoved(r.template, key.template)
            /\ r.output_file = Append(PathParts(r.url), INDEX_HTML)
            /\ r.output_file \in RenderedFiles(fs)
            /\ PathParts(r.template) \in DOMAIN Templates

C3_Witness ==
    \E i \in 1..Len(rendered) :
        /\ data[rendered[i].key].url = <<SLASH, SLASH, "a">>
        /\ rendered[i].output_file = <<A, INDEX_HTML>>
        /\ IsFile(fs, <<A, INDEX_HTML>>)

\* C4: rendering is fail-fast in config order.  When route k is the first
\* whose template cannot be resolved, parsed or rendered, no index.html is
\* ever written for route k or a later route and the run does not succeed;
\* when the run fails at route k it exits with status 1 and leaves the
\* index.html of each of the routes 1..k-1 and every copied static entry in
\* the output directory.
C4_FailFast ==
    \A k \in 1..Len(data) :
        FirstBroken(k) =>
            /\ \A i \in 1..Len(rendered) : rendered[i].key < k
            /\ RenderedFiles(fs) \subseteq {Destination(data[j]) : j \in 1..(k - 1)}
            /\ pc # "done"
            /\ idx < k
            /\ FailedAtRoute(k) =>
                  /\ exitCode = 1
                  /\ error \in {"FileNotFoundError", "TemplateSyntaxError", "TemplateError"}
                  /\ Len(rendered) = k - 1
                  /\ \A j \in 1..(k - 1) : Destination(data[j]) \in RenderedFiles(fs)
                  /\ \A p \in DOMAIN static :
                        /\ Exists(fs, p)
                        /\ fs[p] = static[p] \/ p \in RenderedFiles(fs)

C4_Witness ==
    /\ Len(data) = 2
    /\ FirstBroken(2)
    /\ FailedAtRoute(2)
    /\ Destination(data[1]) \in RenderedFiles(fs)
    /\ IsFile(fs, <<CSS, A>>)

\* C5 as claimed: every failure ends the run with status 1 after exactly
\* one line "<program-name> error: <message>" on the error stream and
\* nothing about it on standard output; a run without failure ends with
\* status 0.
C5_OneErrorLine ==
    /\ pc = "failed" =>
          /\ exitCode = 1
          /\ Len(stderr) = 1
          /\ stderr[1][1] = PROGRAM_ERROR
          /\ \A i \in 1..Len(stdout) :
                stdout[i] \in {<<"Copied static -> html">>,
                               <<"Rendered template -> output_file">>}
    /\ pc = "done" => exitCode = 0 /\ stderr = <<>>

\* C6: the steps of main are taken in the order validate, build
\* environment, load config, create output directory, copy static, render
\* routes; each step follows the success of the one before, a failure ends
\* the run, and nothing follows the end of the run.  The effects of a step
\* are there only once the step was taken.
StepOrder == <<"validate", "environment", "load_config", "mkdir", "copy_static",
               "render", "done">>

StepOf(l) == CHOOSE i \in 1..Len(StepOrder) : StepOrder[i] = l

C6_StepsInOrder ==
    /\ [](/\ pc \in {StepOrder[i] : i \in 1..Len(StepOrder)} \cup {"failed"}
          /\ (pc # "failed" /\ StepOf(pc) <= 2) => env = "none"
          /\ (pc # "failed" /\ StepOf(pc) >= 3) => env # "none"
          /\ (pc # "failed" /\ StepOf(pc) <= 3) => data = <<>> /\ configFile = Unread
          /\ (pc # "failed" /\ StepOf(pc) >= 4) => configFile.status = "ok"
          /\ (pc # "failed" /\ StepOf(pc) <= 4) => fs = fs0 /\ applied = 0
          /\ (pc # "failed" /\ StepOf(pc) >= 5) => IsDir(fs, <<>>)
          /\ (pc # "failed" /\ StepOf(pc) <= 5) => applied = 0 /\ rendered = <<>>
          /\ (pc # "failed" /\ StepOf(pc) >= 6) => applied = 1
          /\ env = "none" => configFile = Unread
          /\ configFile = Unread => fs = fs0
          /\ ~IsDir(fs, <<>>) => applied = 0
          /\ applied = 0 => rendered = <<>>)
    /\ [][/\ pc \notin {"done", "failed"}
          /\ \/ pc' = StepOrder[StepOf(pc) + 1]
             \/ pc' = "failed"
             \/ pc' = pc /\ pc = "render" /\ idx' = idx + 1]_vars

C6_Witness == pc = "done" /\ Len(rendered) = 2 /\ DOMAIN static # {}

\* C7 as claimed: whatever the name of its template, a route never writes a
\* context value containing "<script>" as live markup unless the template
\* marks the value safe.
C7_AlwaysEscaped ==
    rendered # <<>> =>
        LET r == rendered[Len(rendered)]
            text == fs[r.output_file].text
            body == Templates[PathParts(r.template)]
        IN  (\E i \in DOMAIN text : text[i] = "<script>")
                => \E i \in DOMAIN body : body[i] = "{{ v|safe }}"

\* C9 as claimed: at most one file handle is open at any time, and the
\* config.json handle is closed before the output directory is created and
\* before the static copy begins.
C9_ConfigHandleClosed ==
    /\ Cardinality(handles) <= 1
    /\ pc \in {"mkdir", "copy_static"} => "config.json" \notin handles

\* C10: if the run fails before or while config.json is loaded (the output
\* path exists, config.json is missing or is malformed), the output
\* directory is never created: the output path exists after the run exactly
\* if it did before, and nothing under it has changed.
C10_NoDirectoryBeforeConfig ==
    (OutputExisted \/ configFile.status \in {"unread", "missing", "malformed"}) =>
        /\ fs = fs0
        /\ Exists(fs, <<>>) <=> OutputExisted
        /\ applied = 0
        /\ rendered = <<>>

C10_Witness ==
    /\ pc = "failed"
    /\ configFile.status = "malformed"
    /\ error = "JSONDecodeError"
    /\ ~Exists(fs, <<>>)

\* sources and destination agree in kind wherever both have an entry
KindCompatible(src, dst) ==
    \A p \in DOMAIN src \cap DOMAIN dst : src[p].kind = dst[p].kind

Readable(src) == \A p \in DOMAIN src : src[p].readable

\* what merging src into dst means, path by path
Merged(src, dst, out) ==
    /\ DOMAIN out = DOMAIN dst \cup DOMAIN src
    /\ \A p \in DOMAIN src : out[p] = src[p]
    /\ \A p \in DOMAIN dst \ DOMAIN src : out[p] = dst[p]

====
